---- MODULE Spec2Model ----
(***************************************************************************)
(* Badminton match tracker (src/badminton_tracker.py) and tournament       *)
(* pairer (src/tournament_pairer.py).                                      *)
(*                                                                         *)
(* Spec      the tracker: add_player and record_match from an empty store  *)
(* PairSpec  the pairer: generate_pairings over a loaded player snapshot   *)
(*                                                                         *)
(* Ratings are Python floats.  The model keeps what float addition does (a *)
(* grid of representable values, every += and -= rounded to the nearest    *)
(* grid value, ties to even) at a reduced precision: a rating is a whole   *)
(* number of grid units and rating_change is a whole number of Sub-ths of  *)
(* a unit.  All ratings the bounds reach lie in [1024, 2048), one binade,  *)
(* so one grid serves them all.                                            *)
(***************************************************************************)
EXTENDS Integers, Sequences, FiniteSets, TLC

VARIABLES
    players,         \* tracker: self.players, name -> [rating, matches, wins]
    matches,         \* tracker: self.matches, the match records in order
    file,            \* the data file: <<>> when absent, else <<data>>
    saves,           \* number of save_data calls so far
    clock,           \* datetime.now(), a logical clock
    ret,             \* what the last add_player / record_match call returned
    pairer_players,  \* pairer: self.players in the file's order, [name, rating]
    num_matches,     \* pairer: the argument of the last generate_pairings call
    teams,           \* pairer: the list the last generate_pairings call returned
    raised           \* pairer: whether the last generate_pairings call raised

trackerVars == <<players, matches, file, saves, clock, ret>>
pairerVars == <<pairer_players, num_matches, teams, raised>>
vars == <<players, matches, file, saves, clock, ret,
          pairer_players, num_matches, teams, raised>>

----------------------------------------------------------------------------
(* Bounds and inputs *)

MaxMatches == 3
MaxPool == 8
MaxN == 2

Names == {"A", "B", "C", "D"}
TeamInputs == {<<"A", "B">>, <<"C", "D">>, <<"A", "A">>}
ScoreInputs == {<<21, 15>>, <<15, 21>>, <<21, 21>>}
PoolNames == <<"A", "B", "C", "D", "E", "F", "G", "H", "I", "J", "K", "L">>

----------------------------------------------------------------------------
(* Program constants and float arithmetic *)

InitialRating == 1500
K == 32
Sub == 4

Abs(x) == IF x < 0 THEN -x ELSE x

Occurrences(p, slots) == Cardinality({i \in 1..Len(slots) : slots[i] = p})
Members(slots) == {slots[i] : i \in 1..Len(slots)}
PairwiseDistinct(slots) == Cardinality(Members(slots)) = Len(slots)

\* x / Sub rounded to the nearest integer, ties to the even one.
RoundHalfEven(x) ==
    LET fl == x \div Sub
        r == x % Sub
    IN  IF 2 * r < Sub THEN fl
        ELSE IF 2 * r > Sub THEN fl + 1
        ELSE IF fl % 2 = 0 THEN fl ELSE fl + 1

\* rating += change, change in Sub-ths of a grid unit.
FloatAdd(rating, change) == RoundHalfEven(rating * Sub + change)

\* The least d >= 0, d = team2 sum - team1 sum, at which
\* round(K * Sub / (1 + 10 ^ (d / 800))) falls to 64 - k, for k = 1 .. 64.
ExpectedSteps ==
    <<6, 17, 28, 39, 49, 60, 71, 82, 93, 104, 116, 127, 138, 149, 161, 172,
      184, 195, 207, 219, 231, 243, 256, 268, 281, 294, 307, 320, 333, 347,
      361, 375, 389, 404, 419, 435, 451, 467, 484, 501, 519, 537, 556, 576,
      597, 618, 641, 664, 689, 715, 743, 773, 805, 840, 877, 919, 965, 1018,
      1079, 1151, 1241, 1361, 1541, 1926>>

\* expected_team1 = 1 / (1 + 10 ** ((team2_rating - team1_rating) / 400)),
\* in (K * Sub)-ths, from the two teams' rating sums (team rating = sum / 2).
expected_team1(team1_sum, team2_sum) ==
    LET d == team2_sum - team1_sum
        below(x) == Cardinality({k \in 1..Len(ExpectedSteps) : ExpectedSteps[k] <= x})
        half == (K * Sub) \div 2
    IN  IF d >= 0 THEN half - below(d) ELSE half + below(-d)

\* rating_change = K * (actual_score - expected_team1), in Sub-ths of a unit.
rating_change(expected, team1_won) ==
    (IF team1_won THEN K * Sub ELSE 0) - expected

----------------------------------------------------------------------------
(* Tracker *)

NewPlayer == [rating |-> InitialRating, matches |-> 0, wins |-> 0]

IsoFormat(d) == [iso |-> d]

\* save_data: the whole snapshot, dates as ISO strings.
save_data(pl, ms) ==
    <<[players |-> pl,
       matches |-> [i \in 1..Len(ms) |->
                       [ms[i] EXCEPT !.date = IsoFormat(ms[i].date)]]]>>

\* self.players[name] = {...}
Insert(pl, name) ==
    [p \in DOMAIN pl \cup {name} |-> IF p = name THEN NewPlayer ELSE pl[p]]

\* for player in slots: if player not in self.players: self.add_player(player)
RECURSIVE EnsureAll(_, _)
EnsureAll(pl, slots) ==
    IF slots = <<>> THEN pl
    ELSE EnsureAll(IF Head(slots) \in DOMAIN pl THEN pl ELSE Insert(pl, Head(slots)),
                   Tail(slots))

\* Variant of CountMatches: a player who fills several slots is counted once.
CountMatchesOnce(pl, slots) ==
    [p \in DOMAIN pl |->
        IF p \in Members(slots) THEN [pl[p] EXCEPT !.matches = @ + 1] ELSE pl[p]]

\* Variant of CountMatches: the loop runs over team1's two slots only.
CountMatchesTeam1Only(pl, slots) ==
    [p \in DOMAIN pl |->
        [pl[p] EXCEPT !.matches = @ + Occurrences(p, SubSeq(slots, 1, 2))]]

\* for player in slots: self.players[player]["matches"] += 1
RECURSIVE CountMatches(_, _)
CountMatches(pl, slots) ==
    IF slots = <<>> THEN pl
    ELSE CountMatches([pl EXCEPT ![Head(slots)].matches = @ + 1], Tail(slots))

\* Variant of CountWins: a player who fills both winning slots wins once.
CountWinsOnce(pl, slots) ==
    [p \in DOMAIN pl |->
        IF p \in Members(slots) THEN [pl[p] EXCEPT !.wins = @ + 1] ELSE pl[p]]

\* for player in winning_team: self.players[player]["wins"] += 1
RECURSIVE CountWins(_, _)
CountWins(pl, slots) ==
    IF slots = <<>> THEN pl
    ELSE CountWins([pl EXCEPT ![Head(slots)].wins = @ + 1], Tail(slots))

\* for player in slots: self.players[player]["rating"] += change
RECURSIVE AddRating(_, _, _)
AddRating(pl, slots, change) ==
    IF slots = <<>> THEN pl
    ELSE AddRating([pl EXCEPT ![Head(slots)].rating = FloatAdd(@, change)],
                   Tail(slots), change)

RatingSum(pl, slots) == pl[slots[1]].rating + pl[slots[2]].rating

\* Variant of update_ratings: team2's ratings get += instead of -=.
UpdateRatingsSameSign(pl, team1_players, team2_players, team1_won) ==
    LET change == rating_change(expected_team1(RatingSum(pl, team1_players),
                                               RatingSum(pl, team2_players)),
                                team1_won)
    IN  AddRating(AddRating(pl, team1_players, change), team2_players, change)

update_ratings(pl, team1_players, team2_players, team1_won) ==
    LET change == rating_change(expected_team1(RatingSum(pl, team1_players),
                                               RatingSum(pl, team2_players)),
                                team1_won)
    IN  AddRating(AddRating(pl, team1_players, change), team2_players, -change)

\* Variant of team1_won: >= instead of >.
Team1WonOnTie(team1_score, team2_score) == team1_score >= team2_score

team1_won(team1_score, team2_score) == team1_score > team2_score

winning_team(team1_players, team2_players, won) ==
    IF won THEN team1_players ELSE team2_players

\* Variant of AddPlayer: no membership test, the entry is always (re)written.
AddPlayerOverwrite(name) ==
    /\ players' = Insert(players, name)
    /\ file' = save_data(players', matches)
    /\ saves' = saves + 1
    /\ ret' = "True"
    /\ UNCHANGED <<matches, clock>>

AddPlayer(name) ==
    /\ IF name \notin DOMAIN players
       THEN /\ players' = Insert(players, name)
            /\ file' = save_data(players', matches)
            /\ saves' = saves + 1
            /\ ret' = "True"
       ELSE /\ ret' = "False"
            /\ UNCHANGED <<players, file, saves>>
    /\ UNCHANGED <<matches, clock>>

RecordMatch(team1_players, team2_players, team1_score, team2_score) ==
    LET slots == team1_players \o team2_players
        created == {slots[i] : i \in 1..4} \ DOMAIN players
        won == team1_won(team1_score, team2_score)
        match == [date |-> clock,
                  team1_players |-> team1_players,
                  team2_players |-> team2_players,
                  team1_score |-> team1_score,
                  team2_score |-> team2_score]
        counted == CountMatches(EnsureAll(players, slots), slots)
        credited == CountWins(counted,
                              winning_team(team1_players, team2_players, won))
    IN  /\ Len(matches) < MaxMatches
        /\ matches' = Append(matches, match)
        /\ players' = update_ratings(credited, team1_players, team2_players, won)
        /\ file' = save_data(players', matches')
        /\ saves' = saves + Cardinality(created) + 1
        /\ clock' = clock + 1
        /\ ret' = "None"

TrackerInit ==
    /\ players = << >>
    /\ matches = << >>
    /\ file = << >>
    /\ saves = 0
    /\ clock = 1
    /\ ret = "None"

PairerIdle ==
    /\ pairer_players = << >>
    /\ num_matches = 0
    /\ teams = << >>
    /\ raised = FALSE

Init == TrackerInit /\ PairerIdle

Next ==
    \/ \E name \in Names : AddPlayer(name) /\ UNCHANGED pairerVars
    \/ \E t1 \in TeamInputs : \E t2 \in TeamInputs \ {t1}, s \in ScoreInputs :
          RecordMatch(t1, t2, s[1], s[2]) /\ UNCHANGED pairerVars

Spec == Init /\ [][Next]_vars

----------------------------------------------------------------------------
(* Pairer *)

\* The snapshots load_data may find in the data file: up to MaxPool players in
\* the file's order, player i rated below, at or above the initial rating.
RatingInputs(i) == {InitialRating - 16 * i, InitialRating, InitialRating + 16 * i}

RECURSIVE PoolInputs(_)
PoolInputs(n) ==
    IF n = 0 THEN {<< >>}
    ELSE {Append(pool, [name |-> PoolNames[n], rating |-> r]) :
            pool \in PoolInputs(n - 1), r \in RatingInputs(n)}

\* sorted(..., key=rating, reverse=True): descending, equal ratings keep the
\* order they had (the sort is stable).
RECURSIVE sorted_players(_)
sorted_players(items) ==
    IF items = << >> THEN << >>
    ELSE LET n == Len(items)
             e == items[n]
             acc == sorted_players(SubSeq(items, 1, n - 1))
             k == Cardinality({i \in 1..Len(acc) : acc[i].rating >= e.rating})
         IN  SubSeq(acc, 1, k) \o <<e>> \o SubSeq(acc, k + 1, Len(acc))

\* Variant of Pop: the parity test is inverted.
PopInverted(players_pool) ==
    IF Len(players_pool) % 2 = 1
    THEN [player |-> Head(players_pool), pool |-> Tail(players_pool)]
    ELSE [player |-> players_pool[Len(players_pool)],
          pool |-> SubSeq(players_pool, 1, Len(players_pool) - 1)]

\* Variant of Pop: the back player is read (players_pool[-1]) but not removed.
PopKeepsBack(players_pool) ==
    IF Len(players_pool) % 2 = 0
    THEN [player |-> Head(players_pool), pool |-> Tail(players_pool)]
    ELSE [player |-> players_pool[Len(players_pool)], pool |-> players_pool]

\* One pop: pop(0) when the pool's length is even, pop() when it is odd.
Pop(players_pool) ==
    IF Len(players_pool) % 2 = 0
    THEN [player |-> Head(players_pool), pool |-> Tail(players_pool)]
    ELSE [player |-> players_pool[Len(players_pool)],
          pool |-> SubSeq(players_pool, 1, Len(players_pool) - 1)]

\* for _ in range(4): pop one player, team_players.append(player[0])
RECURSIVE DrawFour(_, _, _)
DrawFour(players_pool, team_players, left) ==
    IF left = 0 THEN [team_players |-> team_players, pool |-> players_pool]
    ELSE LET p == Pop(players_pool)
         IN  DrawFour(p.pool, Append(team_players, p.player.name), left - 1)

\* for _ in range(num_matches): draw four, pair them, teams.append(...)
RECURSIVE PairAll(_, _, _)
PairAll(players_pool, left, acc) ==
    IF left <= 0 THEN acc
    ELSE LET d == DrawFour(players_pool, << >>, 4)
             tp == d.team_players
             team1 == <<tp[1], tp[4]>>
             team2 == <<tp[2], tp[3]>>
         IN  PairAll(d.pool, left - 1, Append(acc, <<team1, team2>>))

\* Variant of NotEnough: <= instead of <.
NotEnoughOrExact(items, n) == Len(items) <= n * 4

\* if len(self.players) < num_matches * 4: raise ValueError
NotEnough(items, n) == Len(items) < n * 4

GeneratePairings(n) ==
    /\ num_matches' = n
    /\ IF NotEnough(pairer_players, n)
       THEN /\ raised' = TRUE
            /\ teams' = << >>
       ELSE /\ raised' = FALSE
            /\ teams' = PairAll(sorted_players(pairer_players), n, << >>)
    /\ UNCHANGED pairer_players

PairInit ==
    /\ TrackerInit
    /\ \E n \in 0..MaxPool : pairer_players \in PoolInputs(n)
    /\ num_matches = 0
    /\ teams = << >>
    /\ raised = FALSE

PairNext == \E n \in -1..MaxN : GeneratePairings(n) /\ UNCHANGED trackerVars

PairSpec == PairInit /\ [][PairNext]_vars

----------------------------------------------------------------------------
(* Properties of the tracker, checked under Spec *)

\* The step is a record_match call: it appended one match record.
Recorded == Len(matches') = Len(matches) + 1

\* The arguments of that call, read from the record it appended.
Call == matches'[Len(matches')]
CallSlots == Call.team1_players \o Call.team2_players

\* A player's statistics before the call (a player the call creates starts new).
Old(p) == IF p \in DOMAIN players THEN players[p] ELSE NewPlayer

RECURSIVE SumOver(_, _, _)
SumOver(pl, field, names) ==
    IF names = {} THEN 0
    ELSE LET p == CHOOSE q \in names : TRUE
         IN  pl[p][field] + SumOver(pl, field, names \ {p})

Total(pl, field) == SumOver(pl, field, DOMAIN pl)

LastMatch == matches[Len(matches)]

\* Each participant played once more; one team's members won once more, the
\* other team's members did not.
OneEach ==
    LET t1 == Members(Call.team1_players)
        t2 == Members(Call.team2_players)
        gained(t) == \A p \in t : players'[p].wins = Old(p).wins + 1
        same(t) == \A p \in t : players'[p].wins = Old(p).wins
    IN  /\ \A p \in t1 \cup t2 : players'[p].matches = Old(p).matches + 1
        /\ \/ gained(t1) /\ same(t2)
           \/ gained(t2) /\ same(t1)

\* C1 as stated: after every record_match call, with any four identifiers,
\* each participant's matches counter is exactly 1 higher, the members of
\* exactly one team have wins exactly 1 higher and the other team's members
\* have wins unchanged.
C1_OneEachAlways == [][Recorded => OneEach]_vars

\* C1 amended: after every record_match call each player's matches counter is
\* higher by the number of the four slots the player fills, and wins is higher
\* by the number of slots the player fills in the winning team (team1 when
\* team1_score > team2_score, else team2); when the four identifiers are
\* pairwise distinct that is 1 more match for each participant, 1 more win
\* for each member of one team and none for the other team.
C1_PerSlot ==
    [][Recorded =>
        LET winners == IF Call.team1_score > Call.team2_score
                       THEN Call.team1_players ELSE Call.team2_players
        IN  /\ \A p \in DOMAIN players' :
                 /\ players'[p].matches = Old(p).matches + Occurrences(p, CallSlots)
                 /\ players'[p].wins = Old(p).wins + Occurrences(p, winners)
            /\ PairwiseDistinct(CallSlots) => OneEach]_vars

\* C1 witness: a first match between four distinct players has been recorded,
\* each has 1 match, team1's members 1 win, team2's members none.
C1_Witness ==
    /\ Len(matches) = 1
    /\ PairwiseDistinct(LastMatch.team1_players \o LastMatch.team2_players)
    /\ \A p \in Members(LastMatch.team1_players) :
          players[p].matches = 1 /\ players[p].wins = 1
    /\ \A p \in Members(LastMatch.team2_players) :
          players[p].matches = 1 /\ players[p].wins = 0

\* The call created no player.
AllExisted == Members(CallSlots) \subseteq DOMAIN players

C3_WinsWithinMatches ==
    \A p \in DOMAIN players :
        0 <= players[p].wins /\ players[p].wins <= players[p].matches

\* C3 witness: a player who won some but not all of the matches played, and
\* a match with a repeated player and a tied match have been recorded.
C3_Witness ==
    /\ \E p \in DOMAIN players :
          0 < players[p].wins /\ players[p].wins < players[p].matches
    /\ \E i \in 1..Len(matches) :
          ~PairwiseDistinct(matches[i].team1_players \o matches[i].team2_players)
    /\ \E i \in 1..Len(matches) : matches[i].team1_score = matches[i].team2_score

\* C8: add_player with an absent identifier inserts rating 1500, matches 0,
\* wins 0, writes the snapshot and returns True; with a present identifier it
\* returns False and changes no player, no match record and not the file, and
\* writes nothing.
C8_AddPlayerIdempotent ==
    [][\A name \in Names :
         AddPlayer(name) =>
            IF name \in DOMAIN players
            THEN /\ ret' = "False"
                 /\ UNCHANGED <<players, matches, file, saves>>
            ELSE /\ ret' = "True"
                 /\ DOMAIN players' = DOMAIN players \cup {name}
                 /\ players'[name] = [rating |-> 1500, matches |-> 0, wins |-> 0]
                 /\ \A p \in DOMAIN players : players'[p] = players[p]
                 /\ matches' = matches
                 /\ saves' = saves + 1
                 /\ file # file'
                 /\ file'[1].players = players'
                 /\ Len(file'[1].matches) = Len(matches)]_vars

\* C8 witness: add_player has just returned False for a player who has played
\* and whose rating has moved, and the file holds the store as it is.
C8_Witness ==
    /\ ret = "False"
    /\ \E p \in DOMAIN players :
          players[p].matches > 0 /\ players[p].rating # InitialRating
    /\ file = save_data(players, matches)

\* The call's scores tie.
Tied == Call.team1_score = Call.team2_score

\* C9 as stated: in every tied record_match call each team2 player's wins is
\* 1 higher, no team1 player's wins is higher, no team1 player's rating is
\* higher and no team2 player's rating is lower.
C9_TieCreditsTeam2 ==
    [][Recorded /\ Tied =>
        /\ \A p \in Members(Call.team2_players) :
              /\ players'[p].wins = Old(p).wins + 1
              /\ players'[p].rating >= Old(p).rating
        /\ \A p \in Members(Call.team1_players) :
              /\ players'[p].wins = Old(p).wins
              /\ players'[p].rating <= Old(p).rating]_vars

\* C9 amended: in every tied record_match call team1_won is false: each
\* player's wins is higher by the number of team2 slots the player fills
\* (so 1 for each team2 player and 0 for each team1 player when no player is
\* on both teams or twice on team2), the rating of a player who is only on
\* team1 does not rise and the rating of a player who is only on team2 does
\* not fall.
C9_TiePerSlot ==
    [][Recorded /\ Tied =>
        LET t1 == Members(Call.team1_players)
            t2 == Members(Call.team2_players)
        IN  /\ \A p \in DOMAIN players' :
                 players'[p].wins = Old(p).wins + Occurrences(p, Call.team2_players)
            /\ \A p \in t1 \ t2 : players'[p].rating <= Old(p).rating
            /\ \A p \in t2 \ t1 : players'[p].rating >= Old(p).rating]_vars

\* C9 witness: a tie between four distinct new players has been recorded:
\* team2's members have the win and the rating gain.
C9_Witness ==
    /\ Len(matches) = 1
    /\ LastMatch.team1_score = LastMatch.team2_score
    /\ PairwiseDistinct(LastMatch.team1_players \o LastMatch.team2_players)
    /\ \A p \in Members(LastMatch.team2_players) :
          players[p].wins = 1 /\ players[p].rating > InitialRating
    /\ \A p \in Members(LastMatch.team1_players) :
          players[p].wins = 0 /\ players[p].rating < InitialRating

\* C10: the players' matches counters sum to 4 times the number of match
\* records and their wins counters to 2 times it.
C10_Bookkeeping ==
    /\ Total(players, "matches") = 4 * Len(matches)
    /\ Total(players, "wins") = 2 * Len(matches)

\* C10 witness: two matches are recorded, one with a repeated player and one
\* tied, and a player who never played is in the store.
C10_Witness ==
    /\ Len(matches) >= 2
    /\ \E i \in 1..Len(matches) :
          ~PairwiseDistinct(matches[i].team1_players \o matches[i].team2_players)
    /\ \E i \in 1..Len(matches) : matches[i].team1_score = matches[i].team2_score
    /\ \E p \in DOMAIN players : players[p].matches = 0

----------------------------------------------------------------------------
(* Properties of the pairer, checked under PairSpec *)

PoolSize == Len(pairer_players)
SnapshotNames == {pairer_players[i].name : i \in 1..PoolSize}
IndexOf(name) == CHOOSE i \in 1..PoolSize : pairer_players[i].name = name
RatingOf(name) == pairer_players[IndexOf(name)].rating

\* The place of a player in the ranking: behind every higher-rated player and
\* behind the equally rated players that come earlier in the snapshot.
RankOf(i) ==
    1 + Cardinality({j \in 1..PoolSize :
                        \/ pairer_players[j].rating > pairer_players[i].rating
                        \/ /\ pairer_players[j].rating = pairer_players[i].rating
                           /\ j < i})
Ranked(r) == pairer_players[CHOOSE i \in 1..PoolSize : RankOf(i) = r].name

StrictlyRanked ==
    \A i, j \in 1..PoolSize :
        i # j => pairer_players[i].rating # pairer_players[j].rating

\* The four names of pairing k in slot order: team1, then team2.
Four(k) == teams[k][1] \o teams[k][2]
SlotIds == (1..Len(teams)) \X (1..4)

\* n pairings of two 2-player teams, the 4n slots filled with 4n distinct
\* players of the snapshot, and with all of them when the pool has exactly 4n.
Paired(n) ==
    /\ Len(teams) = n
    /\ \A k \in 1..Len(teams) :
          Len(teams[k]) = 2 /\ Len(teams[k][1]) = 2 /\ Len(teams[k][2]) = 2
    /\ \A s \in SlotIds : Four(s[1])[s[2]] \in SnapshotNames
    /\ \A s, t \in SlotIds : s # t => Four(s[1])[s[2]] # Four(t[1])[t[2]]
    /\ PoolSize = 4 * n => SnapshotNames = {Four(s[1])[s[2]] : s \in SlotIds}

\* C4 as stated: for every N with len(players) >= 4N the call returns exactly
\* N pairings filled with 4N distinct players of the snapshot.
C4_ExactlyN == PoolSize >= 4 * num_matches => ~raised /\ Paired(num_matches)

\* C4 amended: for every N >= 0 with len(players) >= 4N the call returns
\* exactly N pairings of two 2-player teams whose 4N slots hold 4N pairwise
\* distinct players of the snapshot, all of them when len(players) = 4N; for
\* N < 0 it returns the empty list.
C4_ExactlyNonNegativeN ==
    /\ num_matches >= 0 /\ PoolSize >= 4 * num_matches =>
          ~raised /\ Paired(num_matches)
    /\ num_matches < 0 => ~raised /\ teams = << >>

\* C4 witness: two pairings drawn from a pool of exactly 8 in which some
\* ratings tie.
C4_Witness ==
    /\ PoolSize = 8
    /\ num_matches = 2
    /\ ~StrictlyRanked
    /\ Len(teams) = 2
    /\ SnapshotNames = {Four(s[1])[s[2]] : s \in SlotIds}

\* C5: generate_pairings(N) raises exactly when len(players) < 4N; when it
\* raises it returns no pairings; raising or not, it leaves the snapshot as it
\* was.
C5_RaisesIffTooFew ==
    [][num_matches' # num_matches \/ teams' # teams \/ raised' # raised =>
        /\ raised' <=> PoolSize < 4 * num_matches'
        /\ raised' => teams' = << >>
        /\ pairer_players' = pairer_players]_vars

\* C5 witness: a call for N matches on a pool of 4N - 1 players has raised.
C5_Witness ==
    /\ raised
    /\ num_matches = 2
    /\ PoolSize = 4 * num_matches - 1
    /\ teams = << >>

\* What the alternating draw gives for match k of a pool of PoolSize players:
\* front, back, front, back from an even pool, back, front, back, front from
\* an odd one, between ranks 2k - 1 and PoolSize - 2(k - 1).
DrawnFor(k) ==
    LET f == 2 * (k - 1) + 1
        b == PoolSize - 2 * (k - 1)
    IN  IF PoolSize % 2 = 0
        THEN <<Ranked(f), Ranked(b), Ranked(f + 1), Ranked(b - 1)>>
        ELSE <<Ranked(b), Ranked(f), Ranked(b - 1), Ranked(f + 1)>>

C7_HighestWithLowest ==
    ~raised =>
        \A k \in 1..Len(teams) :
            LET team1 == teams[k][1]
                team2 == teams[k][2]
            IN  \A j \in 1..4 :
                    /\ RatingOf(team1[1]) >= RatingOf(Four(k)[j])
                    /\ RatingOf(team1[2]) <= RatingOf(Four(k)[j])

====
